---- MODULE Spec2Model ----
(***************************************************************************)
(* Cashu Nutshell Admin UI (server.js): the structured log ring buffer,    *)
(* the activity buffer, the log query / clear routes and the WebSocket     *)
(* push channel (wss.on('connection'), the per-socket stats interval and   *)
(* the broadcast inside addLog), the Prometheus registry, the dashboard,   *)
(* health, metrics and database statistics routes and the authentication   *)
(* middleware.                                                             *)
(*                                                                         *)
(* One action is one run-to-completion callback of the Node event loop:    *)
(* a synchronous Express route handler, a WebSocket server event handler   *)
(* or a timer callback; an async handler is taken together with the        *)
(* continuations of its awaits.  Environment actions move the clock and    *)
(* change the state of a client's transport, of the mint and of the mint's *)
(* database.                                                               *)
(***************************************************************************)
EXTENDS Integers, Sequences, FiniteSets, TLC

\* ------------------------------------------------------------------ bounds
\* Capacity of the log ring buffer (2000 in the source, scaled down).
MAX_LOG_ENTRIES == 2
\* Capacity of the activity buffer (the literal 1000 in the source, scaled).
MAX_ACTIVITY == 2
\* Number of activity records in a "stats" push (the literal 10, scaled).
STATS_REQUESTS == 1
\* Number of WebSocket connections accepted during a run.
MaxSockets == 2
\* Total number of addLog calls during a run.
MaxAppends == 3
\* Largest clock value (milliseconds since the start of the run).
MaxClock == 1
\* Largest value of the random id suffix (its rank in string order).
MaxRnd == 1
\* Largest limit query parameter tried.
MaxLimit == 2
\* Largest number of "stats" messages pushed to one socket.
MaxStats == 1

\* Total number of addLog calls during a run of the monitoring routes.
MaxMonAppends == 4
\* Largest clock value reached by the health probe's waits.
MaxMonClock == 2
\* Milliseconds in a second (the literal 1000, scaled down).
MsPerSec == 2
\* The timeout of the health probe, in ms (the literal 10000, scaled down).
HEALTH_TIMEOUT == 2
\* Largest unix time (in seconds) the mint reports.
MaxMintTime == 1
\* Largest row count of table outputs tried.
MaxRows == 1
\* The look-back windows of getDbStats, in seconds.
SECONDS_24H == 86400
SECONDS_1H == 3600

\* Number of WebSocket objects the browser client creates during a run.
MaxWebSockets == 3
\* Capacity of the client's log list (the literal 2000 in app.js, scaled).
MAX_CLIENT_LOGS == 2
\* The limit of the client's log query (the literal 500 in app.js, scaled).
FETCH_LIMIT == 1
\* Number of HTTP exchanges of the client in flight at once.
MaxInFlight == 1
\* scheduleReconnect of app.js: the attempts allowed (5 in the source,
\* scaled down), the base delay in ms and the largest delay in ms (30000
\* in the source, scaled down so that the last attempt meets it).
maxReconnectAttempts == 2
RECONNECT_BASE_MS == 1000
RECONNECT_CAP_MS == 3000

Sockets == 1..MaxSockets
WebSockets == 1..MaxWebSockets
Rnd == 0..MaxRnd
Levels == {"info", "debug", "trace", "warn", "error"}
LogSources == {"admin", "websocket", "proxy"}
ActivityTypes == {"mint", "melt"}
\* An absent query parameter (undefined / empty string: falsy in JS).
None == "none"
\* The value of last after a callback that is no route handler.
NoResponse == [op |-> "event"]
\* The absent since parameter (ids are pairs, see IdGreater).
NoSince == <<>>
\* JSON null / undefined, and a present value v (a nullable value is a
\* sequence of at most one element).
Null == <<>>
Val(v) == <<v>>
\* A labelled gauge on which set() has not been called has no sample.
NoValue == <<>>
\* A socket for which no upgrade request has arrived.
NoRequest == <<>>
\* A WebSocket object of the browser that has not been created.
NotCreated == [state |-> "NONE", peer |-> 0, read |-> 0]

VARIABLES
  now,            \* Date.now(), in ms
  logBuffer,      \* the log ring buffer
  requests,       \* monitoringData.requests, the activity buffer
  clients,        \* wss.clients, in insertion (= iteration) order
  readyState,     \* ws.readyState of every socket
  health,         \* whether ws.send on the socket returns or throws (the
                  \* code passes no callback and has no 'error' listener,
                  \* so an exception is the only failure it can meet)
  statsInterval,  \* whether the socket's setInterval timer is armed
  sent,           \* the messages ws.send has accepted, per socket
  crashed,        \* an exception escaped an event-loop callback
  last,           \* the HTTP response of the callback that ran last, if any
  logHist,        \* history: every entry ever passed to logBuffer.push
  logCleared,     \* history: Len(logHist) at the last logBuffer = []
  actHist,        \* history: every record ever pushed to requests
  actCleared,     \* history: Len(actHist) at the last requests = []
  register,       \* the values held by the metrics of the Prometheus registry
  mintOnline,     \* environment: the mint answers GET /v1/info
  db,             \* environment: the mint's database, as the probes see it
  issued,         \* history: every statement run against the database
  presented,      \* history: the credentials in each socket's upgrade request
  \* One browser running public/app.js (class CashuAdmin):
  appCredentials, \* this.credentials
  appScreen,      \* which of #login-screen and #main-app is not hidden
  appWs,          \* this.ws: the WebSocket object created last, 0 for null
  webSockets,     \* every WebSocket object created: its readyState, the
                  \* server socket at the other end (0 before onopen) and
                  \* how many of that socket's messages have been delivered
  reconnectAttempts, \* this.reconnectAttempts
  reconnectTimers,   \* the delays of the pending setTimeout callbacks
  logEntries,     \* this.logEntries
  http,           \* the client's HTTP exchanges in flight
  closes          \* history: close events since the last open event

\* What the remote parties hold: no route handler, WebSocket server
\* callback or timer callback of server.js writes it.
browserVars == <<appCredentials, appScreen, appWs, webSockets,
                 reconnectAttempts, reconnectTimers, logEntries, http, closes>>
remoteVars == <<presented, browserVars>>

\* What server.js holds, but for last.
serverVars == <<now, logBuffer, requests, clients, readyState, health,
                statsInterval, sent, crashed, logHist, logCleared,
                actHist, actCleared, register, mintOnline, db, issued>>

vars == <<now, logBuffer, requests, clients, readyState, health,
          statsInterval, sent, crashed, last, logHist, logCleared,
          actHist, actCleared, register, mintOnline, db, issued,
          presented, appCredentials, appScreen, appWs, webSockets,
          reconnectAttempts, reconnectTimers, logEntries, http, closes>>

\* ----------------------------------------------------------- pure helpers
Min(a, b) == IF a < b THEN a ELSE b
Max(a, b) == IF a > b THEN a ELSE b

\* Array.prototype.slice(start): a negative start counts from the end,
\* and -0 is 0, so slice(-0) is the whole array.
Slice(s, start) ==
  LET from == IF start < 0 THEN Max(Len(s) + start, 0) ELSE Min(start, Len(s))
  IN  SubSeq(s, from + 1, Len(s))

\* The string comparison a > b of two ids "<Date.now()>-<suffix>": the
\* millisecond part has a fixed number of digits, so the strings compare
\* by millisecond first and by random suffix second.
IdGreater(a, b) == a[1] > b[1] \/ (a[1] = b[1] /\ a[2] > b[2])

\* ---------------------------------------------------------------- addLog
\* The entry object built by addLog; n tells the entry objects apart (the
\* message text and ISO timestamp of the source are not modelled).
NewEntry(level, source, r) ==
  [id |-> <<now, r>>, level |-> level, source |-> source,
   n |-> Len(logHist) + 1]

\* A ring buffer that drops the newest entries instead of the oldest.
PushLogKeepOldest(buf, entry) ==
  LET pushed == Append(buf, entry)
  IN  SubSeq(pushed, 1, Min(Len(pushed), MAX_LOG_ENTRIES))

\* logBuffer.push(entry) followed by the capacity check.
PushLog(buf, entry) ==
  LET pushed == Append(buf, entry)
  IN  IF Len(pushed) > MAX_LOG_ENTRIES
      THEN Slice(pushed, -MAX_LOG_ENTRIES) ELSE pushed

\* A send that puts the message ahead of the ones already queued.
SendAhead(snt, ws, msg) == [snt EXCEPT ![ws] = <<msg>> \o @]

\* ws.send(JSON.stringify(msg)) on a healthy socket.
Send(snt, ws, msg) == [snt EXCEPT ![ws] = Append(@, msg)]

\* wss.clients.forEach(ws => { if (ws.readyState === OPEN) ws.send(...) }):
\* no try/catch, so a throwing send ends the iteration and propagates.
RECURSIVE Broadcast(_, _, _, _)
Broadcast(cl, rs, snt, msg) ==
  IF cl = <<>> THEN [sent |-> snt, threw |-> FALSE]
  ELSE LET ws == Head(cl) IN
       IF rs[ws] = "OPEN"
       THEN IF health[ws] = "broken"
            THEN [sent |-> snt, threw |-> TRUE]
            ELSE Broadcast(Tail(cl), rs, Send(snt, ws, msg), msg)
       ELSE Broadcast(Tail(cl), rs, snt, msg)

\* The whole of addLog, from the buffer buf with the registry cl, the
\* ready states rs and the sent messages snt.
AddLog(buf, cl, rs, snt, level, source, r) ==
  LET entry == NewEntry(level, source, r)
      bc    == Broadcast(cl, rs, snt, [type |-> "log", data |-> entry])
  IN  [logBuffer |-> PushLog(buf, entry), sent |-> bc.sent,
       threw |-> bc.threw, entry |-> entry]

CanLog == Len(logHist) < MaxAppends

\* --------------------------------------------------------------- registry
\* The label values of cashu_mint_db_entries_total that the code sets.
Tables == {"mint_quotes", "melt_quotes", "proofs", "outputs", "keysets"}

\* The metrics after construction: prom-client gives a metric without
\* labels the sample 0 and a labelled metric no sample (a labelled counter
\* that has no sample has counted nothing, which is written 0 here).
RegisterInit ==
  [mintUp            |-> 0,
   dbEntryCount      |-> [t \in Tables |-> NoValue],
   mintRequestsTotal |-> [t \in ActivityTypes |-> 0],
   osDiskFreeBytes   |-> 0,
   osDiskTotalBytes  |-> 0]

\* The states of the mint's database that getDbStats tells apart, the
\* aggregate queries that fail or time out, and the row count of outputs.
DbStatuses == {"unconfigured", "missing", "nocli", "ok"}
Queries == {"mintTotal", "mintStates", "mintLast24h", "mintLast1h",
            "meltTotal", "meltStates", "meltLast24h", "meltLast1h",
            "proofsTotal", "outputs", "promises",
            "keysetsTotal", "keysetsActive"}
NoDb == [status |-> "unconfigured", failing |-> {}, outputs |-> 0]

\* ------------------------------------------------------------------- Init
\* What every specification starts from, but for the environment.
InitProcess ==
  /\ now = 0
  /\ logBuffer = <<>>
  /\ requests = <<>>
  /\ clients = <<>>
  /\ readyState = [s \in Sockets |-> "NONE"]
  /\ health = [s \in Sockets |-> "ok"]
  /\ statsInterval = [s \in Sockets |-> FALSE]
  /\ sent = [s \in Sockets |-> <<>>]
  /\ crashed = FALSE
  /\ last = NoResponse
  /\ logHist = <<>>
  /\ logCleared = 0
  /\ actHist = <<>>
  /\ actCleared = 0
  /\ register = RegisterInit
  /\ issued = {}
  /\ presented = [s \in Sockets |-> NoRequest]
  /\ appCredentials = Null
  /\ appScreen = "login"
  /\ appWs = 0
  /\ webSockets = [c \in WebSockets |-> NotCreated]
  /\ reconnectAttempts = 0
  /\ reconnectTimers = <<>>
  /\ logEntries = <<>>
  /\ http = <<>>
  /\ closes = 0

Init ==
  /\ InitProcess
  /\ mintOnline = TRUE
  /\ db = NoDb

\* The shape of the state.
TypeOK ==
  /\ now \in 0..Max(MaxClock, MaxMonClock)
  /\ Len(logBuffer) <= MAX_LOG_ENTRIES
  /\ \A i \in DOMAIN logBuffer :
       /\ logBuffer[i].level \in Levels
       /\ logBuffer[i].source \in LogSources
       /\ logBuffer[i].id \in (0..Max(MaxClock, MaxMonClock)) \X Rnd
  /\ Len(requests) <= MAX_ACTIVITY
  /\ \A i \in DOMAIN requests : requests[i].type \in ActivityTypes
  /\ \A i \in DOMAIN clients : clients[i] \in Sockets
  /\ readyState \in [Sockets -> {"NONE", "OPEN", "CLOSING", "CLOSED"}]
  /\ health \in [Sockets -> {"ok", "broken"}]
  /\ statsInterval \in [Sockets -> BOOLEAN]
  /\ \A s \in Sockets : \A i \in DOMAIN sent[s] :
       sent[s][i].type \in {"connected", "log", "stats"}
  /\ crashed \in BOOLEAN
  /\ last.op \in {"event", "statsTick", "logs", "logsClear", "simulate",
                  "monitoringClear", "dashboard", "health", "metrics",
                  "dbStats", "rejected", "activity"}
  /\ register.mintUp \in {0, 1}
  /\ \A t \in Tables :
       register.dbEntryCount[t] = NoValue \/ Len(register.dbEntryCount[t]) = 1
  /\ \A t \in ActivityTypes : register.mintRequestsTotal[t] \in Nat
  /\ mintOnline \in BOOLEAN
  /\ db.status \in DbStatuses /\ db.failing \subseteq Queries
  /\ db.outputs \in 0..MaxRows
  /\ \A s \in Sockets : Len(presented[s]) <= 1
  /\ Len(appCredentials) <= 1
  /\ appScreen \in {"login", "main"}
  /\ appWs \in {0} \cup WebSockets
  /\ \A c \in WebSockets :
       /\ webSockets[c].state \in
            {"NONE", "CONNECTING", "OPEN", "CLOSING", "CLOSED"}
       /\ webSockets[c].peer \in {0} \cup Sockets
       /\ webSockets[c].read \in Nat
  /\ reconnectAttempts \in 0..maxReconnectAttempts
  /\ Len(reconnectTimers) <= MaxWebSockets
  /\ Len(logEntries) <= MAX_CLIENT_LOGS
  /\ Len(http) <= MaxInFlight
  /\ closes \in 0..MaxWebSockets

\* ------------------------------------------------------------ environment
ClockTick ==
  /\ ~crashed
  /\ now < MaxClock
  /\ now' = now + 1
  /\ last' = NoResponse
  /\ UNCHANGED <<logBuffer, requests, clients, readyState, health,
                 statsInterval, sent, crashed, logHist, logCleared,
                 actHist, actCleared>>
  /\ UNCHANGED <<register, mintOnline, db, issued>>
  /\ UNCHANGED remoteVars

\* The transport of an open socket fails while readyState still reads OPEN:
\* from now on ws.send on it throws.
Break(s) ==
  /\ ~crashed
  /\ readyState[s] = "OPEN"
  /\ health[s] = "ok"
  /\ health' = [health EXCEPT ![s] = "broken"]
  /\ last' = NoResponse
  /\ UNCHANGED <<now, logBuffer, requests, clients, readyState,
                 statsInterval, sent, crashed, logHist, logCleared,
                 actHist, actCleared>>
  /\ UNCHANGED <<register, mintOnline, db, issued>>
  /\ UNCHANGED remoteVars

\* The peer goes away: the socket leaves OPEN; its 'close' event follows.
TransportClose(s) ==
  /\ ~crashed
  /\ readyState[s] = "OPEN"
  /\ readyState' = [readyState EXCEPT ![s] = "CLOSING"]
  /\ last' = NoResponse
  /\ UNCHANGED <<now, logBuffer, requests, clients, health,
                 statsInterval, sent, crashed, logHist, logCleared,
                 actHist, actCleared>>
  /\ UNCHANGED <<register, mintOnline, db, issued>>
  /\ UNCHANGED remoteVars

\* ------------------------------------------------------ WebSocket server
Remove(cl, s) == SelectSeq(cl, LAMBDA x : x # s)

\* wss.on('connection'): the server has added the open socket to
\* wss.clients; the handler logs, acknowledges and arms the stats timer.
\* An exception in the handler is uncaught and ends the process.
Connect(s, r) ==
  /\ ~crashed
  /\ CanLog
  /\ readyState[s] = "NONE"
  /\ \A t \in Sockets : t < s => readyState[t] # "NONE"
  /\ LET cl == Append(clients, s)
         rs == [readyState EXCEPT ![s] = "OPEN"]
         a  == AddLog(logBuffer, cl, rs, sent, "info", "websocket", r)
     IN  /\ clients' = cl
         /\ readyState' = rs
         /\ logBuffer' = a.logBuffer
         /\ logHist' = Append(logHist, a.entry)
         /\ IF a.threw
            THEN /\ sent' = a.sent
                 /\ crashed' = TRUE
                 /\ UNCHANGED statsInterval
            ELSE /\ sent' = Send(a.sent, s, [type |-> "connected", data |-> now])
                 /\ statsInterval' = [statsInterval EXCEPT ![s] = TRUE]
                 /\ UNCHANGED crashed
  /\ last' = NoResponse
  /\ UNCHANGED <<now, requests, health, logCleared, actHist, actCleared>>
  /\ UNCHANGED <<register, mintOnline, db, issued>>
  /\ UNCHANGED remoteVars

\* The number of messages of one type among msgs.
CountType(msgs, type) == Len(SelectSeq(msgs, LAMBDA m : m.type = type))

\* A stats payload that takes the oldest records instead of the newest.
StatsDataOldest ==
  [requests |-> SubSeq(requests, 1, Min(STATS_REQUESTS, Len(requests)))]

\* The payload of a "stats" message (memory, uptime and os are not modelled).
StatsData == [requests |-> Slice(requests, -STATS_REQUESTS)]

\* The setInterval callback of socket s.  A throwing send is an uncaught
\* exception in a timer callback.
StatsTick(s) ==
  /\ ~crashed
  /\ statsInterval[s]
  /\ CountType(sent[s], "stats") < MaxStats
  /\ IF readyState[s] = "OPEN"
     THEN IF health[s] = "broken"
          THEN crashed' = TRUE /\ UNCHANGED sent
          ELSE /\ sent' = Send(sent, s, [type |-> "stats", data |-> StatsData])
               /\ UNCHANGED crashed
     ELSE UNCHANGED <<sent, crashed>>
  /\ last' = [op |-> "statsTick", ws |-> s]
  /\ UNCHANGED <<now, logBuffer, requests, clients, readyState, health,
                 statsInterval, logHist, logCleared, actHist, actCleared>>
  /\ UNCHANGED <<register, mintOnline, db, issued>>
  /\ UNCHANGED remoteVars

\* A close handler that leaves the timer armed.
ClearIntervalMissing(timers, s) == timers

\* clearInterval(statsInterval) in the close handler of socket s.
ClearInterval(timers, s) == [timers EXCEPT ![s] = FALSE]

\* ws.on('close'): the server has removed the socket from wss.clients;
\* the handler cancels the timer and logs.
CloseEvent(s, r) ==
  /\ ~crashed
  /\ CanLog
  /\ readyState[s] = "CLOSING"
  /\ LET cl == Remove(clients, s)
         rs == [readyState EXCEPT ![s] = "CLOSED"]
         a  == AddLog(logBuffer, cl, rs, sent, "info", "websocket", r)
     IN  /\ clients' = cl
         /\ readyState' = rs
         /\ statsInterval' = ClearInterval(statsInterval, s)
         /\ logBuffer' = a.logBuffer
         /\ logHist' = Append(logHist, a.entry)
         /\ sent' = a.sent
         /\ crashed' = a.threw
  /\ last' = NoResponse
  /\ UNCHANGED <<now, requests, health, logCleared, actHist, actCleared>>
  /\ UNCHANGED <<register, mintOnline, db, issued>>
  /\ UNCHANGED remoteVars

\* ------------------------------------------------------------ HTTP routes
\* GET /api/admin/logs?level=&source=&limit=&since=
LogsQuery(level, source, limit, since) ==
  LET byLevel  == IF level # None
                  THEN SelectSeq(logBuffer, LAMBDA l : l.level = level)
                  ELSE logBuffer
      bySource == IF source # None
                  THEN SelectSeq(byLevel, LAMBDA l : l.source = source)
                  ELSE byLevel
      bySince  == IF since # NoSince
                  THEN SelectSeq(bySource, LAMBDA l : IdGreater(l.id, since))
                  ELSE bySource
      logs     == Slice(bySince, -limit)
  IN  [total |-> Len(logs), logs |-> logs]

\* The route handler, for the query string q.
GetLogs(q) ==
  /\ ~crashed
  /\ last' = [op |-> "logs", level |-> q.level, source |-> q.source,
              limit |-> q.limit, since |-> q.since,
              body |-> LogsQuery(q.level, q.source, q.limit, q.since)]
  /\ UNCHANGED <<now, logBuffer, requests, clients, readyState, health,
                 statsInterval, sent, crashed, logHist, logCleared,
                 actHist, actCleared>>
  /\ UNCHANGED <<register, mintOnline, db, issued>>
  /\ UNCHANGED remoteVars

\* A synchronous route handler that throws is answered 500 by Express.
Status(threw) == IF threw THEN 500 ELSE 200

\* A clear that leaves the buffer as it is.
EmptyBufferKeep(buf) == buf

\* logBuffer = []
EmptyBuffer(buf) == <<>>

\* POST /api/admin/logs/clear
ClearLogs(r) ==
  /\ ~crashed
  /\ CanLog
  /\ LET a == AddLog(EmptyBuffer(logBuffer), clients, readyState, sent,
                     "info", "admin", r)
     IN  /\ logBuffer' = a.logBuffer
         /\ logHist' = Append(logHist, a.entry)
         /\ sent' = a.sent
         /\ last' = [op |-> "logsClear", status |-> Status(a.threw)]
  /\ logCleared' = Len(logHist)
  /\ UNCHANGED <<now, requests, clients, readyState, health, statsInterval,
                 crashed, actHist, actCleared>>
  /\ UNCHANGED <<register, mintOnline, db, issued>>
  /\ UNCHANGED remoteVars

\* requests.push(activity) followed by the capacity check.
PushActivity(buf, activity) ==
  LET pushed == Append(buf, activity)
  IN  IF Len(pushed) > MAX_ACTIVITY
      THEN Slice(pushed, -MAX_ACTIVITY) ELSE pushed

\* A counter that ignores its label and counts every type at once.
IncEveryLabel(counter, type) == [t \in DOMAIN counter |-> counter[t] + 1]

\* mintRequestsTotal.inc({ type })
Inc(counter, type) == [counter EXCEPT ![type] = @ + 1]

\* POST /api/admin/activity/simulate
Simulate(type, r) ==
  /\ ~crashed
  /\ CanLog
  /\ LET activity == [id |-> now, type |-> type, n |-> Len(actHist) + 1]
         a == AddLog(logBuffer, clients, readyState, sent, "debug", "admin", r)
     IN  /\ requests' = PushActivity(requests, activity)
         /\ actHist' = Append(actHist, activity)
         /\ register' = [register EXCEPT
                           !.mintRequestsTotal = Inc(@, activity.type)]
         /\ logBuffer' = a.logBuffer
         /\ logHist' = Append(logHist, a.entry)
         /\ sent' = a.sent
         /\ last' = [op |-> "simulate", status |-> Status(a.threw)]
  /\ UNCHANGED <<now, clients, readyState, health, statsInterval, crashed,
                 logCleared, actCleared>>
  /\ UNCHANGED <<mintOnline, db, issued>>
  /\ UNCHANGED remoteVars

\* GET /api/admin/activity?limit=&type=: the limit is applied first and
\* the type filter to what the limit left.
ActivityQuery(type, limit) ==
  LET recent     == Slice(requests, -limit)
      activities == IF type # None
                    THEN SelectSeq(recent, LAMBDA a : a.type = type)
                    ELSE recent
  IN  [total |-> Len(activities), activities |-> activities]

\* The route handler, for the query string q.
GetActivity(q) ==
  /\ ~crashed
  /\ last' = [op |-> "activity", type |-> q.type, limit |-> q.limit,
              body |-> ActivityQuery(q.type, q.limit)]
  /\ UNCHANGED <<now, logBuffer, requests, clients, readyState, health,
                 statsInterval, sent, crashed, logHist, logCleared,
                 actHist, actCleared>>
  /\ UNCHANGED <<register, mintOnline, db, issued>>
  /\ UNCHANGED remoteVars

\* POST /api/admin/monitoring/clear
MonitoringClear(r) ==
  /\ ~crashed
  /\ CanLog
  /\ requests' = <<>>
  /\ actCleared' = Len(actHist)
  /\ LET a == AddLog(logBuffer, clients, readyState, sent, "info", "admin", r)
     IN  /\ logBuffer' = a.logBuffer
         /\ logHist' = Append(logHist, a.entry)
         /\ sent' = a.sent
         /\ last' = [op |-> "monitoringClear", status |-> Status(a.threw)]
  /\ UNCHANGED <<now, clients, readyState, health, statsInterval, crashed,
                 logCleared, actHist>>
  /\ UNCHANGED <<register, mintOnline, db, issued>>
  /\ UNCHANGED remoteVars

\* ------------------------------------------------------------ environment
\* The mint starts or stops answering GET /v1/info.
MintChange ==
  /\ ~crashed
  /\ mintOnline' = ~mintOnline
  /\ last' = NoResponse
  /\ UNCHANGED <<now, logBuffer, requests, clients, readyState, health,
                 statsInterval, sent, crashed, logHist, logCleared,
                 actHist, actCleared, register, db, issued>>
  /\ UNCHANGED remoteVars

\* The database file, the sqlite3 tool or the tables change.  MINT_DB_PATH
\* is read once into CONFIG, so a process started without it stays
\* unconfigured and a configured process never becomes unconfigured.
DbChange(d) ==
  /\ ~crashed
  /\ db.status # "unconfigured"
  /\ d.status # "unconfigured"
  /\ d # db
  /\ db' = d
  /\ last' = NoResponse
  /\ UNCHANGED <<now, logBuffer, requests, clients, readyState, health,
                 statsInterval, sent, crashed, logHist, logCleared,
                 actHist, actCleared, register, mintOnline, issued>>
  /\ UNCHANGED remoteVars

\* An HTTP upgrade request arrives for what becomes socket s, carrying
\* credentials or none.  The WebSocket server is built from the HTTP server
\* alone, with no verifyClient, so it completes the handshake of every
\* request and emits 'connection' without looking at them.
UpgradeRequest(s, credentials) ==
  /\ ~crashed
  /\ readyState[s] = "NONE"
  /\ presented[s] = NoRequest
  /\ \A t \in Sockets : t < s => presented[t] # NoRequest
  /\ presented' = [presented EXCEPT ![s] = Val(credentials)]
  /\ last' = NoResponse
  /\ UNCHANGED <<now, logBuffer, requests, clients, readyState, health,
                 statsInterval, sent, crashed, logHist, logCleared,
                 actHist, actCleared, register, mintOnline, db, issued>>
  /\ UNCHANGED browserVars

\* --------------------------------------------------- addLog, several calls
\* The log state a handler starts from; acc carries the buffer, the sent
\* messages and the history from one addLog call of the handler to the next.
LogAcc ==
  [logBuffer |-> logBuffer, sent |-> sent, hist |-> logHist, threw |-> FALSE]

\* addLog(level, source, ...) at time t, on top of acc.
AddLogTo(acc, level, source, t, r) ==
  LET entry == [id |-> <<t, r>>, level |-> level, source |-> source,
                n |-> Len(acc.hist) + 1]
      bc    == Broadcast(clients, readyState, acc.sent,
                         [type |-> "log", data |-> entry])
  IN  [logBuffer |-> PushLog(acc.logBuffer, entry), sent |-> bc.sent,
       hist |-> Append(acc.hist, entry), threw |-> bc.threw]

\* k callbacks that each call addLog(level, source, ...); threw tells
\* whether one of them threw.
RECURSIVE AddLogTimes(_, _, _, _, _, _)
AddLogTimes(acc, level, source, t, r, k) ==
  IF k = 0 THEN acc
  ELSE LET a == AddLogTo(acc, level, source, t, r)
       IN  AddLogTimes([a EXCEPT !.threw = acc.threw \/ a.threw],
                       level, source, t, r, k - 1)

CanMonLog(k) == Len(logHist) + k <= MaxMonAppends

\* ------------------------------------------------------------- getOsStats
\* What `df -k /` yields: ok is FALSE when the command fails.
Disks == {[ok |-> FALSE, total |-> 0, free |-> 0],
          [ok |-> TRUE, total |-> 2, free |-> 1],
          [ok |-> TRUE, total |-> 2, free |-> 0]}

\* ((1 - diskFree / diskTotal) * 100).toFixed(1), in tenths of a percent.
DiskUsedPercent(total, free) ==
  (2000 * (total - free) + total) \div (2 * total)

\* getOsStats(): the disk figures of its result and the registry after it
\* (memory, CPU and load average are not modelled).
GetOsStats(disk, reg) ==
  LET both == disk.ok /\ disk.total # 0 /\ disk.free # 0
  IN  [os |-> [diskTotal |-> IF disk.ok THEN Val(disk.total) ELSE Null,
               diskFree  |-> IF disk.ok THEN Val(disk.free) ELSE Null,
               diskUsedPercent |->
                 IF both THEN Val(DiskUsedPercent(disk.total, disk.free))
                 ELSE Null],
       register |-> IF both
                    THEN [reg EXCEPT !.osDiskFreeBytes = disk.free,
                                     !.osDiskTotalBytes = disk.total]
                    ELSE reg]

\* ------------------------------------------------------------- getDbStats
\* Math.floor(Date.now() / 1000)
UnixSec(t) == t \div MsPerSec

\* The SQL text of every query of getDbStats, as its shape and its table.
QueryText ==
  [mintTotal     |-> [shape |-> "count",        table |-> "mint_quotes"],
   mintStates    |-> [shape |-> "groupByState", table |-> "mint_quotes"],
   mintLast24h   |-> [shape |-> "countSince",   table |-> "mint_quotes"],
   mintLast1h    |-> [shape |-> "countSince",   table |-> "mint_quotes"],
   meltTotal     |-> [shape |-> "count",        table |-> "melt_quotes"],
   meltStates    |-> [shape |-> "groupByState", table |-> "melt_quotes"],
   meltLast24h   |-> [shape |-> "countSince",   table |-> "melt_quotes"],
   meltLast1h    |-> [shape |-> "countSince",   table |-> "melt_quotes"],
   proofsTotal   |-> [shape |-> "count",        table |-> "proofs"],
   outputs       |-> [shape |-> "count",        table |-> "outputs"],
   promises      |-> [shape |-> "count",        table |-> "promises"],
   keysetsTotal  |-> [shape |-> "count",        table |-> "keysets"],
   keysetsActive |-> [shape |-> "countActive",  table |-> "keysets"]]

\* The created_time cutoff interpolated into a statement, if any.
Cutoff(q, t) ==
  IF q \in {"mintLast24h", "meltLast24h"} THEN Val(UnixSec(t) - SECONDS_24H)
  ELSE IF q \in {"mintLast1h", "meltLast1h"} THEN Val(UnixSec(t) - SECONDS_1H)
  ELSE Null

\* A statement whose table name is taken from the request.
StatementFromRequest(q, t) ==
  [shape |-> QueryText[q].shape, table |-> "users; DROP TABLE proofs",
   cutoff |-> Cutoff(q, t)]

\* The statement handed to sqlite3 -readonly for query q at time t.
Statement(q, t) ==
  [shape |-> QueryText[q].shape, table |-> QueryText[q].table,
   cutoff |-> Cutoff(q, t)]

\* What the database holds: the answer of every query when it succeeds.
Rows ==
  [mintTotal |-> 3, mintLast24h |-> 2, mintLast1h |-> 1,
   meltTotal |-> 4, meltLast24h |-> 3, meltLast1h |-> 0,
   proofsTotal |-> 5, promises |-> 2, keysetsTotal |-> 6, keysetsActive |-> 1]
StateRows ==
  [mintStates |-> {<<"PAID", 1>>, <<"UNPAID", 2>>},
   meltStates |-> {<<"PAID", 4>>}]
RowCount(dbv, q) == IF q = "outputs" THEN dbv.outputs ELSE Rows[q]

\* A single-value query that answers from an old result when it fails.
SqliteQueryStale(dbv, q) == Val(RowCount(dbv, q))

\* sqliteQuery: the scalar, or null on any error or timeout.
SqliteQuery(dbv, q) ==
  IF q \in dbv.failing THEN Null ELSE Val(RowCount(dbv, q))

\* sqliteGroupBy: the key -> count map (a set of pairs), or {} on any error.
SqliteGroupBy(dbv, q) ==
  IF q \in dbv.failing THEN {} ELSE StateRows[q]

\* A fallback taken whenever the first count is falsy.
OrElseFalsy(first, second) ==
  IF first = Null \/ first = Val(0) THEN second ELSE first

\* if (outputsTotal === null) outputsTotal = <the promises query>
OrElse(first, second) == IF first = Null THEN second ELSE first

\* x ?? 0
Nz(x) == IF x = Null THEN 0 ELSE x[1]

\* if (v !== null) gauge.set({ table }, v)
SetIfValue(gauge, table, v) ==
  IF v # Null THEN [gauge EXCEPT ![table] = v] ELSE gauge

\* An answer that reports the database unavailable.
Unavailable(reason) == [available |-> FALSE, reason |-> reason]

\* getDbStats() at time t with the database dbv and the registry reg: its
\* return value, the registry after it and the statements it has run.
\* (Nothing inside its try block throws, so its catch is never entered.)
GetDbStats(dbv, t, reg) ==
  IF dbv.status = "unconfigured"
  THEN [stats |-> Unavailable("MINT_DB_PATH not configured"),
        register |-> reg, issued |-> {}]
  ELSE IF dbv.status = "missing"
  THEN [stats |-> Unavailable("Database file not found"),
        register |-> reg, issued |-> {}]
  ELSE IF dbv.status = "nocli"
  THEN [stats |-> Unavailable("sqlite3 CLI not found"),
        register |-> reg, issued |-> {}]
  ELSE
    LET mintTotal     == SqliteQuery(dbv, "mintTotal")
        mintStates    == SqliteGroupBy(dbv, "mintStates")
        mintLast24h   == SqliteQuery(dbv, "mintLast24h")
        mintLast1h    == SqliteQuery(dbv, "mintLast1h")
        meltTotal     == SqliteQuery(dbv, "meltTotal")
        meltStates    == SqliteGroupBy(dbv, "meltStates")
        meltLast24h   == SqliteQuery(dbv, "meltLast24h")
        meltLast1h    == SqliteQuery(dbv, "meltLast1h")
        proofsTotal   == SqliteQuery(dbv, "proofsTotal")
        outputsFirst  == SqliteQuery(dbv, "outputs")
        outputsTotal  == OrElse(outputsFirst, SqliteQuery(dbv, "promises"))
        keysetsTotal  == SqliteQuery(dbv, "keysetsTotal")
        keysetsActive == SqliteQuery(dbv, "keysetsActive")
        ran == (Queries \ {"promises"})
                 \cup (IF outputsFirst = Null THEN {"promises"} ELSE {})
        g1 == SetIfValue(reg.dbEntryCount, "mint_quotes", mintTotal)
        g2 == SetIfValue(g1, "melt_quotes", meltTotal)
        g3 == SetIfValue(g2, "proofs", proofsTotal)
        g4 == SetIfValue(g3, "outputs", outputsTotal)
        g5 == SetIfValue(g4, "keysets", keysetsTotal)
    IN  [stats |->
           [available |-> TRUE,
            tables |->
              [mintQuotes |-> [total |-> mintTotal, byState |-> mintStates,
                               last24h |-> mintLast24h, last1h |-> mintLast1h],
               meltQuotes |-> [total |-> meltTotal, byState |-> meltStates,
                               last24h |-> meltLast24h, last1h |-> meltLast1h],
               proofs     |-> [total |-> proofsTotal],
               outputs    |-> [total |-> outputsTotal],
               keysets    |-> [total |-> keysetsTotal,
                               active |-> keysetsActive]],
            requestsLast24h |-> Nz(mintLast24h) + Nz(meltLast24h),
            requestsLast1h  |-> Nz(mintLast1h) + Nz(meltLast1h),
            timestamp |-> UnixSec(t)],
         register |-> [reg EXCEPT !.dbEntryCount = g5],
         issued |-> {Statement(q, t) : q \in ran}]

\* ------------------------------------------------------ monitoring routes
\* The three mint endpoints the dashboard fetches.
Endpoints == {"info", "keys", "keysets"}

\* response.data of a mint request: null when the request failed.
Data(fails, e) == IF e \in fails THEN Null ELSE Val(e)

\* mintUp.set(info.data ? 1 : 0)
MintUpValue(data) == IF data # Null THEN 1 ELSE 0

\* GET /api/admin/dashboard.  fails are the mint requests that fail, disk is
\* what df yields.  An exception of an addLog call, in the handler or in
\* one of the .catch callbacks, reaches the handler's catch: status 500.
Dashboard(fails, disk, r) ==
  /\ ~crashed
  /\ CanMonLog(1 + Cardinality(fails))
  /\ ("info" \in fails) = ~mintOnline
  /\ LET a0  == AddLogTo(LogAcc, "debug", "proxy", now, r)
         a1  == IF a0.threw THEN a0
                ELSE AddLogTimes(a0, "warn", "proxy", now, r, Cardinality(fails))
         up  == [register EXCEPT !.mintUp = MintUpValue(Data(fails, "info"))]
         os  == GetOsStats(disk, up)
         dbs == GetDbStats(db, now, os.register)
     IN  /\ logBuffer' = a1.logBuffer
         /\ logHist' = a1.hist
         /\ sent' = a1.sent
         /\ IF a1.threw
            THEN /\ last' = [op |-> "dashboard", status |-> 500,
                             fails |-> fails, disk |-> disk,
                             body |-> [error |-> "send"]]
                 /\ UNCHANGED <<register, issued>>
            ELSE /\ register' = dbs.register
                 /\ issued' = issued \cup dbs.issued
                 /\ last' = [op |-> "dashboard", status |-> 200,
                             fails |-> fails, disk |-> disk,
                             body |-> [mintInfo |-> Data(fails, "info"),
                                       keys |-> Data(fails, "keys"),
                                       keysets |-> Data(fails, "keysets"),
                                       monitoring |-> [requests |-> requests],
                                       os |-> os.os,
                                       db |-> dbs.stats,
                                       config |-> [dbConfigured |->
                                                     db.status # "unconfigured"]]]
  /\ UNCHANGED <<now, requests, clients, readyState, health, statsInterval,
                 crashed, logCleared, actHist, actCleared, mintOnline, db>>
  /\ UNCHANGED remoteVars

\* How the request of the health probe ends.
Outcomes == {"ok", "timeout", "refused", "status"}
\* response.data.time of the mint: absent, or a unix time in seconds.
MintTimes == {Null} \cup {Val(t) : t \in 0..MaxMintTime}

\* mintTime ? (localTime - mintTime) : null
ClockDrift(mintTime, localTime) ==
  IF mintTime # Null /\ mintTime # Val(0)
  THEN Val(localTime - mintTime[1]) ELSE Null

\* mintTime || null
OrNull(v) == IF v # Null /\ v # Val(0) THEN v ELSE Null

\* GET /api/admin/mint/health.  The request ends after elapsed ms with
\* outcome; a successful response carries mintTime.  An exception of the
\* addLog call in the try block enters the catch block; an exception of
\* the addLog call in the catch block rejects the async handler, which
\* nothing handles: no response is sent, and the process goes on or ends
\* as its handling of unhandled rejections has it.
Health(outcome, elapsed, mintTime, r, ends) ==
  /\ ~crashed
  /\ CanMonLog(2)
  /\ (outcome = "ok") = mintOnline
  /\ (outcome = "timeout") = (elapsed = HEALTH_TIMEOUT)
  /\ outcome # "ok" => mintTime = Null
  /\ now + elapsed <= MaxMonClock
  /\ now' = now + elapsed
  /\ LET latencyMs == now' - now
         localTime == UnixSec(now')
         drift     == ClockDrift(mintTime, localTime)
         a1 == IF outcome = "ok"
               THEN AddLogTo(LogAcc, "trace", "proxy", now', r)
               ELSE LogAcc
         caught == outcome # "ok" \/ a1.threw
         a2 == IF caught
               THEN AddLogTo(a1, "error", "proxy", now', r)
               ELSE a1
         probe == [outcome |-> outcome, elapsed |-> elapsed,
                   mintTime |-> mintTime, localTime |-> localTime]
     IN  /\ logBuffer' = a2.logBuffer
         /\ logHist' = a2.hist
         /\ sent' = a2.sent
         /\ IF ~caught
            THEN /\ last' = [op |-> "health", responded |-> TRUE,
                             probe |-> probe,
                             body |-> [reachable |-> TRUE,
                                       latencyMs |-> latencyMs,
                                       mintTime |-> OrNull(mintTime),
                                       localTime |-> localTime,
                                       clockDriftSec |-> drift]]
                 /\ UNCHANGED crashed
            ELSE IF ~a2.threw
            THEN /\ last' = [op |-> "health", responded |-> TRUE,
                             probe |-> probe,
                             body |-> [reachable |-> FALSE,
                                       latencyMs |-> latencyMs]]
                 /\ UNCHANGED crashed
            ELSE /\ last' = [op |-> "health", responded |-> FALSE,
                             probe |-> probe]
                 /\ crashed' = ends
  /\ UNCHANGED <<requests, clients, readyState, health, statsInterval,
                 logCleared, actHist, actCleared, register, mintOnline, db,
                 issued>>
  /\ UNCHANGED remoteVars

\* GET /metrics: getOsStats() refreshes the OS gauges, then the registry is
\* rendered.  The body is the value of every metric in the output.
Metrics(disk) ==
  /\ ~crashed
  /\ LET os == GetOsStats(disk, register)
     IN  /\ register' = os.register
         /\ last' = [op |-> "metrics", status |-> 200, body |-> os.register]
  /\ UNCHANGED <<now, logBuffer, requests, clients, readyState, health,
                 statsInterval, sent, crashed, logHist, logCleared,
                 actHist, actCleared, mintOnline, db, issued>>
  /\ UNCHANGED remoteVars

\* What a request may carry in its query string and body.
RequestInputs == {"users", "users; DROP TABLE proofs"}

\* GET /api/admin/db/stats, with req in its query string.  stats is what
\* getDbStats returned.  An exception of the first addLog call enters the
\* catch block, which logs and answers 500 {available: false, reason}; an
\* exception of that addLog call is answered 500 by Express.
DbStatsRoute(req, r) ==
  /\ ~crashed
  /\ CanMonLog(2)
  /\ LET dbs == GetDbStats(db, now, register)
         a1  == IF dbs.stats.available
                THEN AddLogTo(LogAcc, "debug", "admin", now, r)
                ELSE LogAcc
         a2  == IF a1.threw
                THEN AddLogTo(a1, "error", "admin", now, r)
                ELSE a1
     IN  /\ register' = dbs.register
         /\ issued' = issued \cup dbs.issued
         /\ logBuffer' = a2.logBuffer
         /\ logHist' = a2.hist
         /\ sent' = a2.sent
         /\ last' = [op |-> "dbStats", req |-> req,
                     status |-> IF a1.threw THEN 500 ELSE 200,
                     stats |-> dbs.stats,
                     body |-> IF ~a1.threw THEN dbs.stats
                              ELSE IF ~a2.threw THEN Unavailable("send")
                              ELSE [error |-> "send"]]
  /\ UNCHANGED <<now, requests, clients, readyState, health, statsInterval,
                 crashed, logCleared, actHist, actCleared, mintOnline, db>>
  /\ UNCHANGED remoteVars

\* --------------------------------------------------------- authentication
\* CONFIG.adminUser and CONFIG.adminPass, and what auth(req) may return.
AdminCredentials == [name |-> "admin", pass |-> "admin123"]
Credentials ==
  {Null, Val(AdminCredentials),
   Val([name |-> "admin", pass |-> "guess"]),
   Val([name |-> "guest", pass |-> "admin123"])}
\* The AUTH_TYPE values under which credentials are asked for.
AuthTypes == {"basic", "token"}

\* requireAuth: TRUE when it calls next(), FALSE when it answers 401.
RequireAuth(authType, credentials) ==
  \/ authType = "none"
  \/ ~(\/ credentials = Null
       \/ credentials[1].name # AdminCredentials.name
       \/ credentials[1].pass # AdminCredentials.pass)

\* A middleware that records every refusal through addLog.
RefusedAndLogged(authType, credentials, bodyOk) ==
  /\ ~crashed
  /\ CanLog
  /\ ~bodyOk \/ ~RequireAuth(authType, credentials)
  /\ LET a == AddLog(logBuffer, clients, readyState, sent, "warn", "admin", 0)
     IN  /\ logBuffer' = a.logBuffer
         /\ logHist' = Append(logHist, a.entry)
         /\ sent' = a.sent
  /\ last' = [op |-> "rejected",
              status |-> IF ~bodyOk THEN 400 ELSE 401,
              authorized |-> (credentials = Val(AdminCredentials))]
  /\ UNCHANGED <<now, requests, clients, readyState, health,
                 statsInterval, crashed, logCleared,
                 actHist, actCleared, register, mintOnline, db, issued>>
  /\ UNCHANGED remoteVars

\* A request to a route registered with requireAuth that does not reach
\* the route's handler: bodyParser.json(), mounted ahead of every route,
\* answers 400 to a JSON body that does not parse; requireAuth answers 401.
Refused(authType, credentials, bodyOk) ==
  /\ ~crashed
  /\ ~bodyOk \/ ~RequireAuth(authType, credentials)
  /\ last' = [op |-> "rejected",
              status |-> IF ~bodyOk THEN 400 ELSE 401,
              authorized |-> (credentials = Val(AdminCredentials))]
  /\ UNCHANGED <<now, logBuffer, requests, clients, readyState, health,
                 statsInterval, sent, crashed, logHist, logCleared,
                 actHist, actCleared, register, mintOnline, db, issued>>
  /\ UNCHANGED remoteVars

\* ------------------------------------------------- browser, public/app.js
\* One browser with no saved credentials runs the page.  One action is one
\* callback of the page: a click handler, a WebSocket event handler, a
\* timer callback, or the continuation of a fetch.  The server's answer to
\* a request other than the log query is an input, decided by requireAuth.

\* seq without its i-th element.
RemoveAt(seq, i) == SubSeq(seq, 1, i - 1) \o SubSeq(seq, i + 1, Len(seq))

\* A request sent by fetchWithAuth, with the credentials it carries.
Request(kind, creds) ==
  [kind |-> kind, credentials |-> creds, answered |-> FALSE,
   status |-> 0, logs |-> <<>>]

\* The status the server answers to a request with these credentials
\* (500 stands for every failure that is no 401).
ServerStatus(creds) ==
  IF RequireAuth("basic", creds) THEN {200, 500} ELSE {401}

\* The WebSocket objects created so far.
Created == {c \in WebSockets : webSockets[c].state # "NONE"}

\* ws.close(): it starts the closing handshake of a socket that is
\* connecting or open and does nothing to one that is closing or closed.
Close(socks, c) ==
  IF c # 0 /\ socks[c].state \in {"CONNECTING", "OPEN"}
  THEN [socks EXCEPT ![c].state = "CLOSING"]
  ELSE socks

\* logout(): forget the credentials, close this.ws if there is one and
\* show the login screen.  this.ws keeps its value and no timer is cancelled.
LogoutEffects ==
  /\ appCredentials' = Null
  /\ webSockets' = Close(webSockets, appWs)
  /\ appScreen' = "login"

\* connectWebSocket(): create a WebSocket, store it in this.ws and attach
\* the four handlers to it; the socket that this.ws held is left as it is.
CanConnectWebSocket == Cardinality(Created) < MaxWebSockets
ConnectWebSocket ==
  LET c == Cardinality(Created) + 1
  IN  /\ webSockets' = [webSockets EXCEPT
                          ![c] = [state |-> "CONNECTING", peer |-> 0,
                                  read |-> 0]]
      /\ appWs' = c

\* A delay that doubles without a ceiling.
ReconnectDelayUncapped(attempts) == RECONNECT_BASE_MS * 2^attempts

\* Math.min(1000 * Math.pow(2, this.reconnectAttempts), 30000)
ReconnectDelay(attempts) ==
  Min(RECONNECT_BASE_MS * 2^attempts, RECONNECT_CAP_MS)

\* The login form is submitted (it can be while the login screen shows).
DoLogin(creds) ==
  /\ appScreen = "login"
  /\ Len(http) < MaxInFlight
  /\ appCredentials' = Val(creds)
  /\ http' = Append(http, Request("login", Val(creds)))
  /\ UNCHANGED <<appScreen, appWs, webSockets, reconnectAttempts,
                 reconnectTimers, logEntries, closes>>
  /\ UNCHANGED <<serverVars, last, presented>>

\* The answer to doLogin's request arrives.  200: showMainApp, which
\* connects the WebSocket and runs initLogs (an empty list and a log
\* query).  401: fetchWithAuth calls logout, then doLogin's catch runs.
\* Anything else: doLogin's catch alone.
LoginResponse(i, status) ==
  /\ i \in DOMAIN http
  /\ http[i].kind = "login"
  /\ status \in ServerStatus(http[i].credentials)
  /\ IF status = 200
     THEN /\ CanConnectWebSocket
          /\ appScreen' = "main"
          /\ ConnectWebSocket
          /\ logEntries' = <<>>
          /\ http' = Append(RemoveAt(http, i), Request("logs", appCredentials))
          /\ UNCHANGED appCredentials
     ELSE IF status = 401
     THEN /\ LogoutEffects
          /\ http' = RemoveAt(http, i)
          /\ UNCHANGED <<appWs, logEntries>>
     ELSE /\ appCredentials' = Null
          /\ http' = RemoveAt(http, i)
          /\ UNCHANGED <<appScreen, appWs, webSockets, logEntries>>
  /\ UNCHANGED <<reconnectAttempts, reconnectTimers, closes>>
  /\ UNCHANGED <<serverVars, last, presented>>

\* logout(), from a click on the logout button of the main screen or from
\* fetchWithAuth on a 401 answer to one of the page's polls (the polls
\* started by loadDashboard go on after a logout, without credentials).
Logout ==
  /\ appScreen = "main" \/ (appCredentials = Null /\ Created # {})
  /\ LogoutEffects
  /\ UNCHANGED <<appWs, reconnectAttempts, reconnectTimers, logEntries,
                 http, closes>>
  /\ UNCHANGED <<serverVars, last, presented>>

\* The setTimeout callback of scheduleReconnect: connectWebSocket().
ReconnectTimer(i) ==
  /\ i \in DOMAIN reconnectTimers
  /\ CanConnectWebSocket
  /\ reconnectTimers' = RemoveAt(reconnectTimers, i)
  /\ ConnectWebSocket
  /\ UNCHANGED <<appCredentials, appScreen, reconnectAttempts, logEntries,
                 http, closes>>
  /\ UNCHANGED <<serverVars, last, presented>>

\* ws.onopen of socket c, whose handshake server socket s has completed.
OnOpen(c, s) ==
  /\ webSockets[c].state = "CONNECTING"
  /\ readyState[s] # "NONE"
  /\ \A d \in WebSockets : webSockets[d].peer # s
  /\ webSockets' = [webSockets EXCEPT ![c].state = "OPEN", ![c].peer = s]
  /\ reconnectAttempts' = 0
  /\ closes' = 0
  /\ UNCHANGED <<appCredentials, appScreen, appWs, reconnectTimers,
                 logEntries, http>>
  /\ UNCHANGED <<serverVars, last, presented>>

\* appendLogEntry(entry)
AppendLogEntry(entries, entry) ==
  LET pushed == Append(entries, entry)
  IN  IF Len(pushed) > MAX_CLIENT_LOGS
      THEN Slice(pushed, -MAX_CLIENT_LOGS) ELSE pushed

\* ws.onmessage of socket c: the next message its server socket sent.
\* A "stats" message only updates the page.
OnMessage(c) ==
  /\ webSockets[c].state = "OPEN"
  /\ webSockets[c].read < Len(sent[webSockets[c].peer])
  /\ LET data == sent[webSockets[c].peer][webSockets[c].read + 1]
     IN  logEntries' = IF data.type = "log"
                       THEN AppendLogEntry(logEntries, data.data)
                       ELSE logEntries
  /\ webSockets' = [webSockets EXCEPT ![c].read = @ + 1]
  /\ UNCHANGED <<appCredentials, appScreen, appWs, reconnectAttempts,
                 reconnectTimers, http, closes>>
  /\ UNCHANGED <<serverVars, last, presented>>

\* ws.onclose of socket c, when its closing handshake ends or when its
\* connection fails or is lost: scheduleReconnect().
OnClose(c) ==
  /\ webSockets[c].state \in {"CONNECTING", "OPEN", "CLOSING"}
  /\ webSockets' = [webSockets EXCEPT ![c].state = "CLOSED"]
  /\ closes' = closes + 1
  /\ IF reconnectAttempts < maxReconnectAttempts
     THEN /\ reconnectAttempts' = reconnectAttempts + 1
          /\ reconnectTimers' =
               Append(reconnectTimers, ReconnectDelay(reconnectAttempts + 1))
     ELSE UNCHANGED <<reconnectAttempts, reconnectTimers>>
  /\ UNCHANGED <<appCredentials, appScreen, appWs, logEntries, http>>
  /\ UNCHANGED <<serverVars, last, presented>>

\* fetchLogs(), from a click on the refresh button of the main screen.
FetchLogs ==
  /\ appScreen = "main"
  /\ Len(http) < MaxInFlight
  /\ http' = Append(http, Request("logs", appCredentials))
  /\ UNCHANGED <<appCredentials, appScreen, appWs, webSockets,
                 reconnectAttempts, reconnectTimers, logEntries, closes>>
  /\ UNCHANGED <<serverVars, last, presented>>

\* The server handles the client's GET /api/admin/logs?limit=500:
\* requireAuth, then the route handler.
ServeLogs(i) ==
  /\ ~crashed
  /\ i \in DOMAIN http
  /\ http[i].kind = "logs"
  /\ ~http[i].answered
  /\ IF RequireAuth("basic", http[i].credentials)
     THEN LET body == LogsQuery(None, None, FETCH_LIMIT, NoSince)
          IN  /\ last' = [op |-> "logs", level |-> None, source |-> None,
                          limit |-> FETCH_LIMIT, since |-> NoSince,
                          body |-> body]
              /\ http' = [http EXCEPT ![i].answered = TRUE,
                                      ![i].status = 200,
                                      ![i].logs = body.logs]
     ELSE /\ last' = [op |-> "rejected", status |-> 401,
                      authorized |-> FALSE]
          /\ http' = [http EXCEPT ![i].answered = TRUE, ![i].status = 401]
  /\ UNCHANGED <<appCredentials, appScreen, appWs, webSockets,
                 reconnectAttempts, reconnectTimers, logEntries, closes>>
  /\ UNCHANGED <<serverVars, presented>>

\* The answer to fetchLogs' request arrives: the list is replaced by
\* result.logs; on 401 fetchWithAuth calls logout and fetchLogs' catch
\* leaves the list alone.
LogsResponse(i) ==
  /\ i \in DOMAIN http
  /\ http[i].kind = "logs"
  /\ http[i].answered
  /\ http' = RemoveAt(http, i)
  /\ IF http[i].status = 200
     THEN /\ logEntries' = http[i].logs
          /\ UNCHANGED <<appCredentials, appScreen, webSockets>>
     ELSE /\ LogoutEffects
          /\ UNCHANGED logEntries
  /\ UNCHANGED <<appWs, reconnectAttempts, reconnectTimers, closes>>
  /\ UNCHANGED <<serverVars, last, presented>>

\* ------------------------------------------------------------------- Next
\* The push path never reads an entry's id, so under Spec one random
\* suffix stands for all of them.
FixedRnd == {0}
\* Nor does it read an activity record's type.
FixedType == {"mint"}

\* The WebSocket push channel together with the routes that feed it.
Next ==
  \/ \E s \in Sockets : Break(s)
  \/ \E s \in Sockets : TransportClose(s)
  \/ \E s \in Sockets, r \in FixedRnd : Connect(s, r)
  \/ \E s \in Sockets : StatsTick(s)
  \/ \E s \in Sockets, r \in FixedRnd : CloseEvent(s, r)
  \/ \E type \in FixedType, r \in FixedRnd : Simulate(type, r)
  \/ \E r \in FixedRnd : ClearLogs(r)
  \/ \E r \in FixedRnd : MonitoringClear(r)

Spec == Init /\ [][Next]_vars

\* The log and activity buffers under the HTTP routes, with the clock and
\* the random id suffix free.
\* The query strings tried: every filter combination with every limit and
\* no cursor, and every id present in the buffer as a cursor.
LogQueries ==
  [level : {None, "info"}, source : {None, "admin"}, limit : 0..MaxLimit,
   since : {NoSince}]
  \cup [level : {None}, source : {None}, limit : {MaxLimit},
        since : {logBuffer[i].id : i \in DOMAIN logBuffer}]

NextLog ==
  \/ ClockTick
  \/ \E q \in LogQueries : GetLogs(q)
  \/ \E r \in Rnd : ClearLogs(r)
  \/ \E type \in ActivityTypes, r \in Rnd : Simulate(type, r)
  \/ \E r \in Rnd : MonitoringClear(r)

SpecLog == Init /\ [][NextLog]_vars

\* The dashboard and the metrics scrape with one subscriber, a mint that
\* comes and goes and a database that comes and goes.
MonSockets == {1}
MonDbs == {NoDb,
           [status |-> "ok", failing |-> {}, outputs |-> 1],
           [status |-> "missing", failing |-> {}, outputs |-> 1]}

InitMon ==
  /\ InitProcess
  /\ mintOnline \in BOOLEAN
  /\ db \in MonDbs

NextMon ==
  \/ MintChange
  \/ \E d \in MonDbs : DbChange(d)
  \/ \E s \in MonSockets, r \in FixedRnd : Connect(s, r)
  \/ \E s \in MonSockets : Break(s)
  \/ \E fails \in SUBSET Endpoints, disk \in Disks, r \in FixedRnd :
       Dashboard(fails, disk, r)
  \/ \E disk \in Disks : Metrics(disk)

SpecMon == InitMon /\ [][NextMon]_vars

\* The health probe with one subscriber and a mint that comes and goes.
InitHealth ==
  /\ InitProcess
  /\ mintOnline \in BOOLEAN
  /\ db = NoDb

NextHealth ==
  \/ MintChange
  \/ \E s \in MonSockets, r \in FixedRnd : Connect(s, r)
  \/ \E s \in MonSockets : Break(s)
  \/ \E outcome \in Outcomes, elapsed \in 0..HEALTH_TIMEOUT,
        mintTime \in MintTimes, r \in FixedRnd, ends \in BOOLEAN :
       Health(outcome, elapsed, mintTime, r, ends)

SpecHealth == InitHealth /\ [][NextHealth]_vars

\* getDbStats over every database: every status, every set of failing
\* queries and every row count of outputs; one logged request per run.
AllDbs ==
  {d \in [status : {"ok"}, failing : SUBSET Queries, outputs : 0..MaxRows] :
     "outputs" \in d.failing => d.outputs = 0}
  \cup [status : DbStatuses \ {"ok"}, failing : {{}}, outputs : {0}]

InitDb ==
  /\ InitProcess
  /\ mintOnline = TRUE
  /\ db \in AllDbs

NextDb ==
  \/ ClockTick
  \/ \E req \in RequestInputs, r \in FixedRnd :
       logHist = <<>> /\ DbStatsRoute(req, r)

SpecDb == InitDb /\ [][NextDb]_vars

\* Requests that the middleware turns away, among requests that change
\* the buffers, the registry and the subscribers' messages.
NextAuth ==
  \/ \E s \in MonSockets, r \in FixedRnd : Connect(s, r)
  \/ \E type \in FixedType, r \in FixedRnd : Simulate(type, r)
  \/ \E r \in FixedRnd : ClearLogs(r)
  \/ \E disk \in Disks : Metrics(disk)
  \/ \E authType \in AuthTypes, credentials \in Credentials,
        bodyOk \in BOOLEAN : Refused(authType, credentials, bodyOk)

SpecAuth == Init /\ [][NextAuth]_vars

\* The activity buffer and its counter under appends, clears and scrapes.
NextAct ==
  \/ \E type \in ActivityTypes, r \in FixedRnd : Simulate(type, r)
  \/ \E r \in FixedRnd : MonitoringClear(r)
  \/ \E disk \in Disks : Metrics(disk)

SpecAct == Init /\ [][NextAct]_vars

\* The push channel with the credentials of every upgrade request on
\* record: a connection follows its upgrade request.
NextWs ==
  \/ \E s \in Sockets, credentials \in {Null, Val(AdminCredentials)} :
       UpgradeRequest(s, credentials)
  \/ \E s \in Sockets, r \in FixedRnd :
       presented[s] # NoRequest /\ Connect(s, r)
  \/ \E s \in Sockets : Break(s)
  \/ \E s \in Sockets : StatsTick(s)
  \/ \E type \in FixedType, r \in FixedRnd : Simulate(type, r)

SpecWs == Init /\ [][NextWs]_vars

\* The activity buffer under appends, clears and queries, with the clock
\* free.  The query strings tried: every type or none, with every limit.
ActivityQueries == [type : {None} \cup ActivityTypes, limit : 0..MaxLimit]

NextActivity ==
  \/ ClockTick
  \/ \E type \in ActivityTypes, r \in FixedRnd : Simulate(type, r)
  \/ \E r \in FixedRnd : MonitoringClear(r)
  \/ \E q \in ActivityQueries : GetActivity(q)

SpecActivity == Init /\ [][NextActivity]_vars

\* The browser and the server together.  The server sockets accepted so
\* far: the 'connection' handler runs once for every WebSocket the page
\* creates, at most.
Accepted == {s \in Sockets : readyState[s] # "NONE"}

\* What the login form is submitted with.
LoginInputs == {AdminCredentials, [name |-> "admin", pass |-> "guess"]}

\* The life of the page's WebSockets: logins and logouts, open and close
\* events and reconnect timers (messages are not followed).  The form is
\* submitted while no request of the page is pending.
NextReconnect ==
  \/ \E creds \in LoginInputs : http = <<>> /\ DoLogin(creds)
  \/ \E i \in 1..MaxInFlight, status \in {200, 401, 500} :
       LoginResponse(i, status)
  \/ Logout
  \/ \E i \in 1..MaxWebSockets : ReconnectTimer(i)
  \/ \E c \in WebSockets, s \in Sockets : OnOpen(c, s)
  \/ \E c \in WebSockets : OnClose(c)
  \/ \E i \in 1..MaxInFlight : ServeLogs(i)
  \/ \E i \in 1..MaxInFlight : LogsResponse(i)
  \/ \E s \in Sockets, r \in FixedRnd :
       Cardinality(Accepted) < Cardinality(Created) /\ Connect(s, r)

SpecReconnect == Init /\ [][NextReconnect]_vars

\* The page's log list: log pushes and log queries, with a route that
\* appends log entries.
NextPush ==
  \/ DoLogin(AdminCredentials)
  \/ \E i \in 1..MaxInFlight : LoginResponse(i, 200)
  \/ Logout
  \/ \E i \in 1..MaxWebSockets : ReconnectTimer(i)
  \/ \E c \in WebSockets, s \in Sockets : OnOpen(c, s)
  \/ \E c \in WebSockets : OnMessage(c)
  \/ \E c \in WebSockets : OnClose(c)
  \/ FetchLogs
  \/ \E i \in 1..MaxInFlight : ServeLogs(i)
  \/ \E i \in 1..MaxInFlight : LogsResponse(i)
  \/ \E s \in Sockets, r \in FixedRnd :
       Cardinality(Accepted) < Cardinality(Created) /\ Connect(s, r)
  \/ \E type \in FixedType, r \in FixedRnd : Simulate(type, r)

SpecPush == Init /\ [][NextPush]_vars

\* ======================================================================
\* Claims
\* ======================================================================
\* The last k elements of s.
LastN(s, k) == SubSeq(s, Len(s) - k + 1, Len(s))

\* What has been appended since the buffer was last emptied.
LogsSinceClear == SubSeq(logHist, logCleared + 1, Len(logHist))
ActivitySinceClear == SubSeq(actHist, actCleared + 1, Len(actHist))

\* C1: after N appends with no clear in between, the log buffer (capacity
\* MAX_LOG_ENTRIES) and the activity buffer (capacity MAX_ACTIVITY) hold
\* exactly the min(N, C) most recently appended entries, in insertion order.
C1_RingBufferBound ==
  /\ logBuffer = LastN(LogsSinceClear, Min(Len(LogsSinceClear), MAX_LOG_ENTRIES))
  /\ requests = LastN(ActivitySinceClear, Min(Len(ActivitySinceClear), MAX_ACTIVITY))

\* Both buffers have evicted an entry.
C1_Witness ==
  /\ Len(LogsSinceClear) > MAX_LOG_ENTRIES
  /\ Len(ActivitySinceClear) > MAX_ACTIVITY

IsLogsResponse == last.op = "logs"

\* C2: a log query with since = X, X the id of one entry still in the
\* buffer (no filters, a limit that does not truncate), returns exactly
\* the entries appended after that entry.
C2_CursorContinuity ==
  (IsLogsResponse /\ last.since # NoSince /\ last.level = None
     /\ last.source = None /\ last.limit >= Len(logBuffer))
  => \A i \in DOMAIN logBuffer :
       (/\ logBuffer[i].id = last.since
        /\ \A j \in DOMAIN logBuffer : logBuffer[j].id = last.since => j = i)
       => last.body.logs = SubSeq(logBuffer, i + 1, Len(logBuffer))

\* C3: a log query with filters level and source and limit L >= 0 returns
\* the last min(L, m) of the m matching entries, in insertion order, and
\* total is the number of entries returned; also for L = 0.
C3_FilterThenLimit ==
  (IsLogsResponse /\ last.since = NoSince)
  => LET matching ==
           SelectSeq(logBuffer,
                     LAMBDA l : /\ (last.level # None => l.level = last.level)
                                /\ (last.source # None => l.source = last.source))
     IN  /\ last.body.logs = LastN(matching, Min(last.limit, Len(matching)))
         /\ last.body.total = Len(last.body.logs)

\* C4 as stated: when the clear route has answered {success: true} the log
\* buffer is empty and a following log query returns total = 0.
C4_ClearLeavesEmpty ==
  (last.op = "logsClear" /\ last.status = 200)
  => /\ logBuffer = <<>>
     /\ \A limit \in 1..MaxLimit :
          LogsQuery(None, None, limit, NoSince).total = 0

\* C4 as amended: when the clear route has run, the log buffer holds
\* exactly one entry, the info/admin entry the handler appends after
\* emptying the buffer, and a following unfiltered log query with a limit
\* of at least 1 returns total = 1.
C4_ClearLeavesAuditEntry ==
  last.op = "logsClear"
  => /\ Len(logBuffer) = 1
     /\ logBuffer[1] = logHist[Len(logHist)]
     /\ logBuffer[1].level = "info" /\ logBuffer[1].source = "admin"
     /\ \A limit \in 1..MaxLimit :
          LogsQuery(None, None, limit, NoSince).total = 1

\* The clear route has answered success on a buffer that held entries.
C4_Witness ==
  /\ last.op = "logsClear" /\ last.status = 200
  /\ logCleared > 0

\* ---------------------------------------------------------- push channel
LogMessages(msgs) == SelectSeq(msgs, LAMBDA m : m.type = "log")
StatsMessages(msgs) == SelectSeq(msgs, LAMBDA m : m.type = "stats")
InRegistry(s) == \E i \in DOMAIN clients : clients[i] = s

\* A step in which addLog ran (every handler calls it at most once).
AddLogStep == Len(logHist') = Len(logHist) + 1
\* The entry that addLog call appended.
Appended == logHist'[Len(logHist')]
\* Socket s is open, with a working transport, when that addLog call runs.
OpenAtAddLog(s) ==
  readyState'[s] = "OPEN" /\ InRegistry(s)' /\ health[s] = "ok"

\* C5: a single addLog call sends every open subscriber exactly one "log"
\* message whose data is the appended entry, within the call itself.
C5_LogFanOut ==
  [][AddLogStep =>
       \A s \in Sockets :
         OpenAtAddLog(s) =>
           LogMessages(sent'[s]) =
             Append(LogMessages(sent[s]), [type |-> "log", data |-> Appended])]_vars

\* The step is the 'close' event of socket s.
CloseStep(s) == readyState[s] = "CLOSING" /\ readyState'[s] = "CLOSED"
\* The step is a timer tick of socket t.
TickStep(t) == last'.op = "statsTick" /\ last'.ws = t /\ vars' # vars

RouteFailed == last.op \in {"simulate", "logsClear", "monitoringClear"}
               /\ last.status = 500

\* C7: when a push send to a subscriber fails, that subscriber is removed
\* from the registry and its timer is cancelled.  (After a route whose
\* addLog send failed, no open subscriber with a failed transport is left
\* registered or armed.)
C7_FailedSendDeregisters ==
  RouteFailed =>
    \A s \in Sockets :
      (readyState[s] = "OPEN" /\ health[s] = "broken")
      => ~InRegistry(s) /\ ~statsInterval[s]

\* C8: a failed send to, or the close of, one subscriber never keeps
\* another open subscriber from the "log" message of the same addLog call
\* or from its own next "stats" message, and never makes the operation
\* that called addLog fail.
C8_FailureIsolated ==
  [][(\E a \in Sockets :
        \/ readyState'[a] \in {"CLOSING", "CLOSED"}
        \/ (readyState'[a] = "OPEN" /\ health[a] = "broken"))
     => /\ AddLogStep =>
             \A s \in Sockets :
               OpenAtAddLog(s) =>
                 Len(LogMessages(sent'[s])) = Len(LogMessages(sent[s])) + 1
        /\ AddLogStep => ~crashed'
        /\ (AddLogStep /\ last'.op \in {"simulate", "logsClear", "monitoringClear"})
             => last'.status = 200
        /\ \A t \in Sockets :
             (TickStep(t) /\ readyState[t] = "OPEN" /\ health[t] = "ok")
             => Len(StatsMessages(sent'[t])) = Len(StatsMessages(sent[t])) + 1]_vars

\* C9: over the lifetime of a subscriber connection the server sends it
\* exactly one "connected" message.  (Once the connection handler has run,
\* there is exactly one; it is never followed by a second.)
C9_ConnectedOnce ==
  \A s \in Sockets :
    readyState[s] # "NONE" => CountType(sent[s], "connected") = 1

DashboardKeys ==
  {"mintInfo", "keys", "keysets", "monitoring", "os", "db", "config"}

\* C11: for every combination of source failures (each of the three mint
\* requests, the database, the disk statistics) the dashboard route answers
\* 200 with an object that has all of the keys mintInfo, keys, keysets,
\* monitoring, os, db and config, each failed source shown as null or as
\* {available: false, reason}.
C11_DashboardTotal ==
  last.op = "dashboard"
  => /\ last.status = 200
     /\ DOMAIN last.body = DashboardKeys
     /\ \A e \in Endpoints :
          LET shown == IF e = "info" THEN last.body.mintInfo
                       ELSE IF e = "keys" THEN last.body.keys
                       ELSE last.body.keysets
          IN  (e \in last.fails) = (shown = Null)
     /\ (db.status # "ok") =
          (~last.body.db.available /\ "reason" \in DOMAIN last.body.db)
     /\ ~last.disk.ok =>
          /\ last.body.os.diskFree = Null
          /\ last.body.os.diskTotal = Null
          /\ last.body.os.diskUsedPercent = Null

\* C12: the mint_up value rendered by a scrape is 1 if the mint is
\* reachable at the time of the scrape and 0 if it is not, for every
\* history of earlier requests and reachability changes.
C12_MintUpAtScrape ==
  last.op = "metrics"
  => last.body.mintUp = (IF mintOnline THEN 1 ELSE 0)

\* C13: whenever the database is unavailable (not configured, file missing
\* or query tool missing) at the time of a scrape, the output has no
\* mint_db_entries_total value for any table.
C13_NoDbEntriesWhenUnavailable ==
  (last.op = "metrics" /\ db.status # "ok")
  => \A t \in Tables : last.body.dbEntryCount[t] = NoValue

\* The number of activity records of one type ever appended.
AppendedOfType(hist, type) == Len(SelectSeq(hist, LAMBDA a : a.type = type))

\* C14: for every sequence of activity appends, evictions and monitoring
\* clears, the counter mint_requests_total of type t never decreases and
\* equals the number of activity records of type t appended since the
\* process started.
C14_RequestsTotalCumulative ==
  [][\A t \in ActivityTypes :
       /\ register'.mintRequestsTotal[t] >= register.mintRequestsTotal[t]
       /\ register'.mintRequestsTotal[t] = AppendedOfType(actHist', t)
       /\ last'.op = "metrics" =>
            last'.body.mintRequestsTotal[t] = AppendedOfType(actHist', t)]_vars

\* Both types have been counted, the activity buffer has been cleared
\* since, and a scrape has rendered the counters above the buffer's size.
C14_Witness ==
  /\ last.op = "metrics"
  /\ actCleared > 0
  /\ requests = <<>>
  /\ \A t \in ActivityTypes : last.body.mintRequestsTotal[t] >= 1

\* ------------------------------------------------------------- getDbStats
\* getDbStats has run against a database it could query.
DbStatsQueried == last.op = "dbStats" /\ db.status = "ok"

\* What a query of the database answers when it does not fail.
Answer(q) == Val(RowCount(db, q))

\* C15: the reported outputs total is the row count of table outputs when
\* that query succeeds, otherwise the row count of table promises when
\* that query succeeds, and null, with the database still reported
\* available, when both fail.
C15_OutputsFallback ==
  DbStatsQueried
  => /\ last.stats.available
     /\ last.stats.tables.outputs.total =
          (IF "outputs" \notin db.failing THEN Answer("outputs")
           ELSE IF "promises" \notin db.failing THEN Answer("promises")
           ELSE Null)

\* The outputs query has failed and the promises query has answered.
C15_Witness ==
  /\ DbStatsQueried
  /\ "outputs" \in db.failing /\ "promises" \notin db.failing
  /\ last.stats.tables.outputs.total = Val(Rows.promises)

\* The figure of the result that a single-value query fills.
Figure(stats, q) ==
  CASE q = "mintTotal"     -> stats.tables.mintQuotes.total
    [] q = "mintLast24h"   -> stats.tables.mintQuotes.last24h
    [] q = "mintLast1h"    -> stats.tables.mintQuotes.last1h
    [] q = "meltTotal"     -> stats.tables.meltQuotes.total
    [] q = "meltLast24h"   -> stats.tables.meltQuotes.last24h
    [] q = "meltLast1h"    -> stats.tables.meltQuotes.last1h
    [] q = "proofsTotal"   -> stats.tables.proofs.total
    [] q = "keysetsTotal"  -> stats.tables.keysets.total
    [] q = "keysetsActive" -> stats.tables.keysets.active

\* C16: for every subset of the aggregate queries that fail or time out,
\* the result has available = true, the figure of every failing query is
\* null (an empty byState map for a grouped query) and the figure of every
\* succeeding query is that query's value; the outputs figure is null
\* exactly when both of its queries fail.
C16_QueriesFailIndependently ==
  DbStatsQueried
  => /\ last.stats.available
     /\ last.status = 200 => last.body = last.stats
     /\ \A q \in Queries \ {"mintStates", "meltStates", "outputs", "promises"} :
          Figure(last.stats, q) = (IF q \in db.failing THEN Null ELSE Answer(q))
     /\ last.stats.tables.mintQuotes.byState =
          (IF "mintStates" \in db.failing THEN {} ELSE StateRows.mintStates)
     /\ last.stats.tables.meltQuotes.byState =
          (IF "meltStates" \in db.failing THEN {} ELSE StateRows.meltStates)
     /\ (last.stats.tables.outputs.total = Null) =
          ({"outputs", "promises"} \subseteq db.failing)

\* Some queries have failed, among them a grouped one, and others have
\* answered.
C16_Witness ==
  /\ DbStatsQueried
  /\ last.stats.available
  /\ db.failing = {"mintStates", "meltTotal", "keysetsActive"}
  /\ last.stats.tables.meltQuotes.total = Null
  /\ last.stats.tables.mintQuotes.total = Val(Rows.mintTotal)

\* The statements of the allow-list, each with the tables it may name.
CountTables ==
  {"mint_quotes", "melt_quotes", "proofs", "outputs", "promises", "keysets"}
QuoteTables == {"mint_quotes", "melt_quotes"}

\* C17: every statement issued against the mint database is one of a fixed
\* set of SELECT aggregates (a count, the count of active keysets, a count
\* grouped by state, a count above a created_time cutoff) over the tables
\* mint_quotes, melt_quotes, proofs, outputs, promises and keysets, and no
\* request input is part of a statement.
C17_ReadOnlyAllowList ==
  \A st \in issued :
    /\ \/ st.shape = "count" /\ st.table \in CountTables /\ st.cutoff = Null
       \/ st.shape = "countActive" /\ st.table = "keysets" /\ st.cutoff = Null
       \/ st.shape = "groupByState" /\ st.table \in QuoteTables
            /\ st.cutoff = Null
       \/ st.shape = "countSince" /\ st.table \in QuoteTables
            /\ st.cutoff \in {Val(UnixSec(t) - SECONDS_24H) : t \in 0..now}
                               \cup {Val(UnixSec(t) - SECONDS_1H) : t \in 0..now}
    /\ st.table \notin RequestInputs

\* A request that carries SQL text has run every statement, the fallback
\* included.
C17_Witness ==
  /\ last.op = "dbStats" /\ last.req = "users; DROP TABLE proofs"
  /\ \E st \in issued : st.shape = "countSince"
  /\ \E st \in issued : st.table = "promises"
  /\ \E st \in issued : st.table = "proofs"

\* ----------------------------------------------------------- health probe
\* C18: for a successful health probe whose response carries the timestamp
\* remoteUnixSec the route reports clockDriftSec = localUnixSec -
\* remoteUnixSec (positive when the local clock is ahead), and it reports
\* clockDriftSec = null when the response has no timestamp.
C18_ClockDrift ==
  (last.op = "health" /\ last.probe.outcome = "ok")
  => /\ last.responded
     /\ last.body.reachable
     /\ last.body.clockDriftSec =
          (IF last.probe.mintTime = Null THEN Null
           ELSE Val(last.probe.localTime - last.probe.mintTime[1]))

\* C19: for every kind of failure of the health probe (timeout, connection
\* refused, non-2xx answer) the route still answers normally with
\* reachable = false, a latencyMs >= 0 equal to the time elapsed until the
\* failure, and no mint time or clock drift value; the failure never
\* propagates as an error.
C19_ProbeFailureContained ==
  (last.op = "health" /\ last.probe.outcome # "ok")
  => /\ last.responded
     /\ ~crashed
     /\ ~last.body.reachable
     /\ last.body.latencyMs = last.probe.elapsed
     /\ last.body.latencyMs >= 0
     /\ last.probe.outcome = "timeout" => last.body.latencyMs = HEALTH_TIMEOUT
     /\ {"mintTime", "clockDriftSec"} \cap DOMAIN last.body = {}

\* --------------------------------------------------------- authentication
\* The step is a request without the admin credentials that was turned away.
RefusedStep == last'.op = "rejected" /\ ~last'.authorized /\ last' # last

\* What a refused request must leave alone.
Untouched ==
  /\ logBuffer' = logBuffer
  /\ requests' = requests
  /\ register' = register
  /\ sent' = sent

WasSent(s, types) == \E i \in DOMAIN sent[s] : sent[s][i].type \in types

\* C21: when AUTH_TYPE is not 'none', "log" and "stats" messages reach only
\* WebSocket clients whose upgrade request carried the admin credentials:
\* a client that has not authenticated is sent no log entry and no
\* activity record.
C21_PushOnlyToAuthenticated ==
  \A authType \in AuthTypes : \A s \in Sockets :
    (presented[s] # NoRequest /\ ~RequireAuth(authType, presented[s][1]))
    => ~WasSent(s, {"log", "stats"})

\* The "log" messages sent to socket s, in the order of the sends (the
\* order in which the connection delivers them).
LogsSent(s) == SelectSeq(sent[s], LAMBDA m : m.type = "log")

\* C22: every subscriber is sent its "log" messages in the order in which
\* the entries were appended to the log buffer: each message carries an
\* appended entry, and of two messages the earlier carries the entry that
\* was appended earlier.
C22_PushInAppendOrder ==
  \A s \in Sockets :
    LET logs == LogsSent(s)
    IN  \A i, j \in DOMAIN logs :
          /\ logs[i].data.n \in DOMAIN logHist
          /\ logs[i].data = logHist[logs[i].data.n]
          /\ i < j => logs[i].data.n < logs[j].data.n

\* A subscriber has been sent two entries.
C22_Witness == \E s \in Sockets : Len(LogsSent(s)) >= 2

\* C23: an activity query with a type filter t and limit L returns the
\* min(L, m) most recent of the m records of type t in the activity
\* buffer, in insertion order (filter first, then limit).
C23_ActivityFilterThenLimit ==
  (last.op = "activity" /\ last.type # None)
  => LET matching == SelectSeq(requests, LAMBDA a : a.type = last.type)
         k == Min(last.limit, Len(matching))
     IN  /\ last.body.activities = LastN(matching, k)
         /\ last.body.total = k

\* C29: no two records in the activity buffer have the same id.
C29_ActivityIdsUnique ==
  \A i, j \in DOMAIN requests :
    i # j => requests[i].id # requests[j].id

\* C30: whenever the disk statistics command succeeds, getOsStats reports
\* diskUsedPercent = (1 - diskFree / diskTotal) * 100 and sets the disk
\* free and disk total gauges to the values just read, for every diskFree
\* in 0..diskTotal, a full disk (diskFree = 0) included.
C30_DiskFiguresWhenDfSucceeds ==
  (last.op = "dashboard" /\ last.status = 200 /\ last.disk.ok)
  => /\ last.body.os.diskUsedPercent =
          Val(DiskUsedPercent(last.disk.total, last.disk.free))
     /\ register.osDiskFreeBytes = last.disk.free
     /\ register.osDiskTotalBytes = last.disk.total

\* C25: the first message the server sends to a newly opened subscriber
\* connection is the "connected" acknowledgement: no "log" or "stats"
\* message is sent to that subscriber before it.
C25_ConnectedFirst ==
  \A s \in Sockets :
    sent[s] # <<>> => sent[s][1].type = "connected"

\* A close event of WebSocket c, and an open event of it.
ClosedNow(c) ==
  webSockets[c].state # "CLOSED" /\ webSockets'[c].state = "CLOSED"
OpenedNow(c) ==
  webSockets[c].state # "OPEN" /\ webSockets'[c].state = "OPEN"

\* C24: in the browser, the k-th consecutive WebSocket close with no open
\* in between schedules exactly one reconnect after
\* min(RECONNECT_BASE_MS * 2^k, RECONNECT_CAP_MS) ms for k up to
\* maxReconnectAttempts and none after that; an open sets the attempt
\* count to 0.
C24_ReconnectBackoff ==
  [][\A c \in WebSockets :
       /\ ClosedNow(c) =>
            reconnectTimers' =
              IF closes' <= maxReconnectAttempts
              THEN Append(reconnectTimers,
                          Min(RECONNECT_BASE_MS * 2^(closes'),
                              RECONNECT_CAP_MS))
              ELSE reconnectTimers
       /\ OpenedNow(c) => reconnectAttempts' = 0]_vars

\* One close more than the attempts allowed, with no timer left.
C24_Witness ==
  closes > maxReconnectAttempts /\ reconnectTimers = <<>>

\* C26: in the browser, after logout() no WebSocket is created until the
\* next successful login: while the login screen stays up, no step creates
\* a WebSocket.
C26_NoReconnectAfterLogout ==
  [][(appScreen = "login" /\ appScreen' = "login")
     => \A c \in WebSockets :
          webSockets[c].state = "NONE" => webSockets'[c].state = "NONE"]_vars

\* The WebSockets whose handlers can still be given a message, and the
\* log entries that have been delivered to the handlers of WebSocket c.
Live == {c \in WebSockets : webSockets[c].state \in {"CONNECTING", "OPEN"}}
Delivered(c) ==
  IF webSockets[c].peer = 0 THEN {}
  ELSE {sent[webSockets[c].peer][i].data.n :
          i \in {k \in 1..webSockets[c].read :
                   sent[webSockets[c].peer][k].type = "log"}}

\* C27: in the browser, at most one WebSocket with live handlers exists at
\* any time, and no log entry is delivered to the handlers of two of the
\* page's WebSockets (each push is appended to the log list at most once).
C27_OneLiveWebSocket ==
  /\ Cardinality(Live) <= 1
  /\ \A c, d \in WebSockets :
       c # d => Delivered(c) \cap Delivered(d) = {}

\* C28: in the browser with a single WebSocket, whatever the order of log
\* query answers and "log" pushes, the log list never holds a server entry
\* twice and never lacks an entry appended between two entries it holds.
C28_LogListConsistent ==
  Cardinality(Created) <= 1
  => /\ \A i, j \in DOMAIN logEntries :
          i # j => logEntries[i].n # logEntries[j].n
     /\ \A i, j \in DOMAIN logEntries : \A n \in DOMAIN logHist :
          (logEntries[i].n < n /\ n < logEntries[j].n)
          => \E k \in DOMAIN logEntries : logEntries[k].n = n

====
